---- MODULE Spec2Model ----
(***************************************************************************)
(* The recipe API (app/recipe/views.py, app/recipe/serializers.py): three  *)
(* tables (tags, ingredients, recipes), the REST handlers of               *)
(* TagViewSet, IngredientViewSet and RecipeViewSet, and the response each  *)
(* handler returns.  A handler is one action; the request it served and    *)
(* the response it produced are kept in the variable response.             *)
(* The management command wait_for_db                                      *)
(* (app/core/management/commands/wait_for_db.py) is a process of its own,  *)
(* specified by WaitSpec.                                                  *)
(***************************************************************************)
EXTENDS Bags, FiniteSets, Integers, Sequences, TLC

VARIABLES
    tags,         \* Tag table: tags[id] = [name, user], id = 1..Len(tags)
    ingredients,  \* Ingredient table, same shape
    recipes,      \* Recipe table: a function from the ids in use to rows
    recipe_seq,   \* the last identifier the Recipe table handed out
    response,     \* the last request handled and its response
    pc,           \* wait_for_db: the position of Command.handle
    db_conn,      \* wait_for_db: the local db_conn
    stdout,       \* wait_for_db: the lines written to self.stdout
    slept,        \* wait_for_db: the seconds spent in time.sleep
    available     \* whether connections['default'] raises no OperationalError

api_vars == <<tags, ingredients, recipes, recipe_seq, response>>
wait_vars == <<pc, db_conn, stdout, slept, available>>
vars == <<tags, ingredients, recipes, recipe_seq, response,
          pc, db_conn, stdout, slept, available>>

----------------------------------------------------------------------------
(* Bounds of the model *)

\* rows ever inserted, the three tables together
MaxRows == 3

\* attempts of wait_for_db that raise OperationalError
MaxRetries == 20

----------------------------------------------------------------------------
(* Principals and field values *)

Users == {"u1", "u2"}
AnonymousUser == "AnonymousUser"
Principals == Users \cup {AnonymousUser}

TagNames == {"Raw", "Vegan"}
IngredientNames == {"Kale"}
Titles == {"Sample recipe", "Chicken tikka"}
Images == {"a.jpg"}
NoImage == ""

\* ordinal collation of the names used (ORDER BY name)
Collation == [Kale |-> 1, Raw |-> 2, Salt |-> 3, Vegan |-> 4]

Kinds == {"tag", "ingredient"}

DB == [tags |-> tags, ingredients |-> ingredients, recipes |-> recipes,
       recipe_seq |-> recipe_seq]

Table(db, kind) == IF kind = "tag" THEN db.tags ELSE db.ingredients

\* recipe.tags / recipe.ingredients: the many-to-many field of a recipe row
Related(row, kind) == IF kind = "tag" THEN row.tags ELSE row.ingredients

----------------------------------------------------------------------------
(* Query-string values are sequences of characters *)

DigitValue == [c \in {"0", "1", "2", "3"} |->
                 CASE c = "0" -> 0 [] c = "1" -> 1 [] c = "2" -> 2 [] c = "3" -> 3]

\* int(s) raises ValueError unless s is a non-empty run of digits
\* (over the alphabet of the model: digits, comma, letters)
int_ok(s) == Len(s) > 0 /\ \A i \in 1..Len(s) : s[i] \in DOMAIN DigitValue

RECURSIVE int(_)
int(s) == IF Len(s) = 0 THEN 0
          ELSE 10 * int(SubSeq(s, 1, Len(s) - 1)) + DigitValue[s[Len(s)]]

\* str.split(','): always at least one segment, empty segments kept
RECURSIVE split(_)
split(s) ==
    LET commas == {i \in 1..Len(s) : s[i] = ","}
    IN  IF commas = {} THEN <<s>>
        ELSE LET i == CHOOSE j \in commas : \A k \in commas : j <= k
             IN  <<SubSeq(s, 1, i - 1)>> \o split(SubSeq(s, i + 1, Len(s)))

\* query_params.get(key) is None when the key is absent
Has(query, key) == key \in DOMAIN query

----------------------------------------------------------------------------
(* Querysets are bags of primary keys: a join yields one row per link *)

all(table) == [id \in DOMAIN table |-> 1]

\* a queryset that is not scoped to the requesting user
filter_user_all(qs, table, user) == qs

\* .filter(user=...)
filter_user(qs, table, user) ==
    [id \in {i \in DOMAIN qs : table[i].user = user} |-> qs[id]]

\* a queryset that keeps the duplicates of its joins
distinct_keep(qs) == qs

\* .distinct()
distinct(qs) == [id \in DOMAIN qs |-> 1]

\* a queryset without ORDER BY: the rows in any order
RECURSIVE order_by_any(_, _)
order_by_any(qs, key) ==
    IF DOMAIN qs = {} THEN {<<>>}
    ELSE LET rest(e) == IF qs[e] = 1
                        THEN [id \in DOMAIN qs \ {e} |-> qs[id]]
                        ELSE [qs EXCEPT ![e] = @ - 1]
         IN  UNION {{<<e>> \o s : s \in order_by_any(rest(e), key)} : e \in DOMAIN qs}

\* .order_by(key): every sequence of the rows that is sorted by key; rows
\* with equal keys come in an order the database chooses
RECURSIVE order_by(_, _)
order_by(qs, key) ==
    IF DOMAIN qs = {} THEN {<<>>}
    ELSE LET firsts == {e \in DOMAIN qs : \A o \in DOMAIN qs : key[e] <= key[o]}
             rest(e) == IF qs[e] = 1
                        THEN [id \in DOMAIN qs \ {e} |-> qs[id]]
                        ELSE [qs EXCEPT ![e] = @ - 1]
         IN  UNION {{<<e>> \o s : s \in order_by(rest(e), key)} : e \in firsts}

\* .filter(recipe__isnull=False): inner join with the link table, one row
\* per recipe that references the tag / ingredient
filter_recipe_isnull_False(qs, db, kind) ==
    LET links(id) == Cardinality({r \in DOMAIN db.recipes :
                                     id \in Related(db.recipes[r], kind)})
    IN  [id \in {i \in DOMAIN qs : links(i) > 0} |-> qs[id] * links(id)]

\* .filter(tags__id__in=ids) / .filter(ingredients__id__in=ids): inner join
\* with the link table, one row per matching link
filter_related_id_in(qs, db, kind, ids) ==
    LET links(r) == Cardinality(Related(db.recipes[r], kind) \cap ids)
    IN  [r \in {i \in DOMAIN qs : links(i) > 0} |-> qs[r] * links(r)]

----------------------------------------------------------------------------
(* Serializers *)

\* TagSerializer / IngredientSerializer: fields ('id', 'name')
AttrSerializer(db, kind, id) == [id |-> id, name |-> Table(db, kind)[id].name]

\* RecipeSerializer: related rows as primary keys
RecipeSerializer(db, id) ==
    LET row == db.recipes[id]
    IN  [id |-> id, title |-> row.title, time_mins |-> row.time_mins,
         tags |-> row.tags, ingredients |-> row.ingredients]

\* RecipeDetailSerializer: related rows nested
RecipeDetailSerializer(db, id) ==
    LET row == db.recipes[id]
    IN  [id |-> id, title |-> row.title, time_mins |-> row.time_mins,
         tags |-> {AttrSerializer(db, "tag", t) : t \in row.tags},
         ingredients |-> {AttrSerializer(db, "ingredient", i) : i \in row.ingredients}]

----------------------------------------------------------------------------
(* Responses *)

\* request.data of a request that carries none, or whose serializer was
\* never built
NoData == [k \in {} |-> 0]

Response(op, principal, pk, query, status, detail, data) ==
    [op |-> op, principal |-> principal, pk |-> pk, query |-> query,
     initial_data |-> NoData, format |-> "",
     status |-> status, detail |-> detail, data |-> data]

\* get_serializer(..., data=request.data): from here on the response is
\* that of a serializer with this initial_data, parsed from this encoding
Serialized(out, payload, format) ==
    [out EXCEPT !.initial_data = payload, !.format = format]

NotAuthenticated(op, principal, pk, query) ==
    Response(op, principal, pk, query, 401,
             "Authentication credentials were not provided.", <<>>)

ParseError(op, principal, pk, query, detail) ==
    Response(op, principal, pk, query, 400, detail, <<>>)

\* fetch-then-authorize: a row of another user answered with 403
Http403(op, principal, pk, query) ==
    Response(op, principal, pk, query, 403,
             "You do not have permission to perform this action.", <<>>)

Http404(op, principal, pk, query) ==
    Response(op, principal, pk, query, 404, "Not found.", <<>>)

\* AllowAny
AllowAny(principal) == TRUE

\* IsAuthenticated
IsAuthenticated(principal) == principal \in Users

----------------------------------------------------------------------------
(* BaseRecipeAttrViewSet *)

\* 'if assigned_only:' before the parse: the empty value read as absent
assigned_only_ValueError_truthy(query) ==
    /\ Has(query, "assigned_only")
    /\ query["assigned_only"] # <<>>
    /\ ~int_ok(query["assigned_only"])

assigned_only_ValueError(query) ==
    Has(query, "assigned_only") /\ ~int_ok(query["assigned_only"])

\* get_queryset with order_by('-name')
get_queryset_minus_name(db, kind, user, query) ==
    LET table == Table(db, kind)
        assigned_only == Has(query, "assigned_only") /\ int(query["assigned_only"]) # 0
        queryset == IF assigned_only
                    THEN filter_recipe_isnull_False(all(table), db, kind)
                    ELSE all(table)
        minus_name == [id \in DOMAIN table |-> 0 - Collation[table[id].name]]
    IN  order_by(distinct(filter_user(queryset, table, user)), minus_name)

\* the possible results of get_queryset, when it raises nothing
BaseRecipeAttrViewSet_get_queryset(db, kind, user, query) ==
    LET table == Table(db, kind)
        assigned_only == Has(query, "assigned_only") /\ int(query["assigned_only"]) # 0
        queryset == IF assigned_only
                    THEN filter_recipe_isnull_False(all(table), db, kind)
                    ELSE all(table)
        name == [id \in DOMAIN table |-> Collation[table[id].name]]
    IN  order_by(distinct(filter_user(queryset, table, user)), name)

\* GET /tags/ , GET /ingredients/
BaseRecipeAttrViewSet_list(db, kind, principal, query) ==
    LET op == "list_" \o kind
    IN  IF ~IsAuthenticated(principal)
        THEN {NotAuthenticated(op, principal, 0, query)}
        ELSE IF assigned_only_ValueError(query)
        THEN {ParseError(op, principal, 0, query, "assigned_only must be an integer")}
        ELSE {Response(op, principal, 0, query, 200, "",
                       [i \in 1..Len(qs) |-> AttrSerializer(db, kind, qs[i])]) :
                 qs \in BaseRecipeAttrViewSet_get_queryset(db, kind, principal, query)}


\* get_object(): get_object_or_404(filter_queryset(get_queryset()), pk=pk)
get_object_or_404(querysets, pk) ==
    \E qs \in querysets : \E i \in 1..Len(qs) : qs[i] = pk

\* GET /tags/<pk>/ , GET /ingredients/<pk>/
BaseRecipeAttrViewSet_retrieve(db, kind, principal, pk, query) ==
    LET op == "retrieve_" \o kind
    IN  IF ~IsAuthenticated(principal)
        THEN NotAuthenticated(op, principal, pk, query)
        ELSE IF assigned_only_ValueError(query)
        THEN ParseError(op, principal, pk, query, "assigned_only must be an integer")
        ELSE IF ~get_object_or_404(
                    BaseRecipeAttrViewSet_get_queryset(db, kind, principal, query), pk)
        THEN Http404(op, principal, pk, query)
        ELSE Response(op, principal, pk, query, 200, "",
                      <<AttrSerializer(db, kind, pk)>>)

\* a name field declared with allow_blank=True
AttrSerializer_errors_allow_blank(payload) ==
    IF ~Has(payload, "name") THEN "name: This field is required." ELSE ""

\* TagSerializer / IngredientSerializer validation of the writable field
\* 'name' (a payload key outside Meta.fields, such as 'user', is not read)
AttrSerializer_errors(payload) ==
    IF ~Has(payload, "name") THEN "name: This field is required."
    ELSE IF payload["name"] = "" THEN "name: This field may not be blank."
    ELSE ""

\* serializer.save() with the owner the payload names
perform_create_payload_user(table, payload, user) ==
    Append(table, [name |-> payload["name"],
                   user |-> IF Has(payload, "user") THEN payload["user"] ELSE user])

\* perform_create: serializer.save(user=self.request.user)
BaseRecipeAttrViewSet_perform_create(table, payload, user) ==
    Append(table, [name |-> payload["name"], user |-> user])

\* POST /tags/ , POST /ingredients/ : the new table and the response
BaseRecipeAttrViewSet_create(db, kind, principal, payload) ==
    LET op == "create_" \o kind
        table == Table(db, kind)
        noq == [k \in {} |-> <<>>]
    IN  IF ~IsAuthenticated(principal)
        THEN [table |-> table, response |-> NotAuthenticated(op, principal, 0, noq)]
        ELSE IF AttrSerializer_errors(payload) # ""
        THEN [table |-> table,
              response |-> Serialized(Response(op, principal, 0, noq, 400,
                                          AttrSerializer_errors(payload), <<>>),
                                      payload, "")]
        ELSE LET new == BaseRecipeAttrViewSet_perform_create(table, payload, principal)
             IN  [table |-> new,
                  response |-> Serialized(Response(op, principal, Len(new), noq, 201, "",
                                 <<[id |-> Len(new), name |-> payload["name"]]>>),
                                      payload, "")]

----------------------------------------------------------------------------
(* RecipeViewSet *)

\* only the first segment parsed
filter_ValueError_first(query, key) ==
    /\ Has(query, key)
    /\ query[key] # <<>>
    /\ ~int_ok(split(query[key])[1])

\* if tags: list(map(int, tags.split(','))) raises ValueError
filter_ValueError(query, key) ==
    /\ Has(query, key)
    /\ query[key] # <<>>
    /\ \E i \in 1..Len(split(query[key])) : ~int_ok(split(query[key])[i])

\* the id list a filter parameter names (when it raises nothing)
filter_ids(query, key) ==
    {int(split(query[key])[i]) : i \in 1..Len(split(query[key]))}

\* the second filter applied to self.queryset instead of the filtered one
get_queryset_last_filter(db, user, query) ==
    LET q0 == all(db.recipes)
        q1 == IF Has(query, "tags") /\ query["tags"] # <<>>
              THEN filter_related_id_in(q0, db, "tag", filter_ids(query, "tags"))
              ELSE q0
        q2 == IF Has(query, "ingredients") /\ query["ingredients"] # <<>>
              THEN filter_related_id_in(q0, db, "ingredient",
                                        filter_ids(query, "ingredients"))
              ELSE q1
        minus_id == [id \in DOMAIN db.recipes |-> 0 - id]
    IN  order_by(distinct(filter_user(q2, db.recipes, user)), minus_id)

\* the possible results of get_queryset, when it raises nothing
RecipeViewSet_get_queryset(db, user, query) ==
    LET q0 == all(db.recipes)
        q1 == IF Has(query, "tags") /\ query["tags"] # <<>>
              THEN filter_related_id_in(q0, db, "tag", filter_ids(query, "tags"))
              ELSE q0
        q2 == IF Has(query, "ingredients") /\ query["ingredients"] # <<>>
              THEN filter_related_id_in(q1, db, "ingredient",
                                        filter_ids(query, "ingredients"))
              ELSE q1
        minus_id == [id \in DOMAIN db.recipes |-> 0 - id]
    IN  order_by(distinct(filter_user(q2, db.recipes, user)), minus_id)

\* get_object() looking the row up in the unfiltered queryset of the user
initial_unfiltered(db, op, principal, pk, query, detail_route) ==
    IF ~IsAuthenticated(principal)
    THEN {NotAuthenticated(op, principal, pk, query)}
    ELSE IF filter_ValueError(query, "tags")
    THEN {ParseError(op, principal, pk, query,
                     "tags must be a comma separated list of integers")}
    ELSE IF filter_ValueError(query, "ingredients")
    THEN {ParseError(op, principal, pk, query,
                     "ingredients must be a comma separated list of integers")}
    ELSE IF detail_route
            /\ ~get_object_or_404(
                   RecipeViewSet_get_queryset(db, principal, [k \in {} |-> <<>>]), pk)
    THEN {Http404(op, principal, pk, query)}
    ELSE {}

\* what stops a request before its handler body runs: the permission
\* check, then the exceptions of get_queryset, then (on a detail route)
\* get_object's 404.  The empty set when nothing stops it.
RecipeViewSet_initial(db, op, principal, pk, query, detail_route) ==
    IF ~IsAuthenticated(principal)
    THEN {NotAuthenticated(op, principal, pk, query)}
    ELSE IF filter_ValueError(query, "tags")
    THEN {ParseError(op, principal, pk, query,
                     "tags must be a comma separated list of integers")}
    ELSE IF filter_ValueError(query, "ingredients")
    THEN {ParseError(op, principal, pk, query,
                     "ingredients must be a comma separated list of integers")}
    ELSE IF detail_route
            /\ ~get_object_or_404(RecipeViewSet_get_queryset(db, principal, query), pk)
    THEN {Http404(op, principal, pk, query)}
    ELSE {}

\* GET /recipes/
RecipeViewSet_list(db, principal, query) ==
    LET stop == RecipeViewSet_initial(db, "list_recipe", principal, 0, query, FALSE)
    IN  IF stop # {} THEN stop
        ELSE {Response("list_recipe", principal, 0, query, 200, "",
                       [i \in 1..Len(qs) |-> RecipeSerializer(db, qs[i])]) :
                 qs \in RecipeViewSet_get_queryset(db, principal, query)}

\* GET /recipes/<pk>/ : get_serializer_class gives RecipeDetailSerializer
RecipeViewSet_retrieve(db, principal, pk, query) ==
    LET stop == RecipeViewSet_initial(db, "retrieve_recipe", principal, pk, query, TRUE)
    IN  IF stop # {} THEN CHOOSE r \in stop : TRUE
        ELSE Response("retrieve_recipe", principal, pk, query, 200, "",
                      <<RecipeDetailSerializer(db, pk)>>)

\* the payload key of a many-to-many field
FieldOf(kind) == IF kind = "tag" THEN "tags" ELSE "ingredients"

\* RecipeSerializer validation of 'ingredients' and 'tags':
\* PrimaryKeyRelatedField(many=True, queryset=<Model>.objects.all()).
\* An absent key reads as [] in form data (multipart) and as missing in
\* JSON; a missing field is skipped on a partial update.
RecipeSerializer_errors(db, payload, format, partial) ==
    LET err(kind) ==
            IF Has(payload, FieldOf(kind))
            THEN IF payload[FieldOf(kind)] \subseteq DOMAIN Table(db, kind)
                 THEN ""
                 ELSE FieldOf(kind) \o ": Invalid pk - object does not exist."
            ELSE IF ~partial /\ format = "json"
                 THEN FieldOf(kind) \o ": This field is required."
                 ELSE ""
    IN  IF err("ingredient") # "" THEN err("ingredient") ELSE err("tag")

\* a many-to-many field applied with field.add(...): the old rows stay
RecipeSerializer_related_add(payload, kind, old, partial) ==
    IF Has(payload, FieldOf(kind)) THEN old \cup payload[FieldOf(kind)]
    ELSE IF partial THEN old
    ELSE {}

\* validated_data of a many-to-many field, applied with field.set(...)
RecipeSerializer_related(payload, kind, old, partial) ==
    IF Has(payload, FieldOf(kind)) THEN payload[FieldOf(kind)]
    ELSE IF partial THEN old
    ELSE {}

\* validated_data of a scalar field
RecipeSerializer_scalar(payload, key, old) ==
    IF Has(payload, key) THEN payload[key] ELSE old

\* a save that drops the many-to-many fields
perform_create_unrelated(payload, user) ==
    [user      |-> user,
     title     |-> payload["title"],
     time_mins |-> payload["time_mins"],
     tags        |-> {},
     ingredients |-> {},
     image     |-> NoImage]

\* perform_create: serializer.save(user=self.request.user)
RecipeViewSet_perform_create(payload, user) ==
    [user      |-> user,
     title     |-> payload["title"],
     time_mins |-> payload["time_mins"],
     tags        |-> RecipeSerializer_related(payload, "tag", {}, FALSE),
     ingredients |-> RecipeSerializer_related(payload, "ingredient", {}, FALSE),
     image     |-> NoImage]

\* POST /recipes/ : the new database and the response
RecipeViewSet_create(db, principal, payload, format) ==
    LET op == "create_recipe"
        noq == [k \in {} |-> <<>>]
        id == db.recipe_seq + 1
        new == [db EXCEPT
                  !.recipes = [r \in DOMAIN db.recipes \cup {id} |->
                                 IF r = id
                                 THEN RecipeViewSet_perform_create(payload, principal)
                                 ELSE db.recipes[r]],
                  !.recipe_seq = id]
    IN  IF ~IsAuthenticated(principal)
        THEN [db |-> db, response |-> NotAuthenticated(op, principal, 0, noq)]
        ELSE IF RecipeSerializer_errors(db, payload, format, FALSE) # ""
        THEN [db |-> db,
              response |-> Serialized(Response(op, principal, 0, noq, 400,
                              RecipeSerializer_errors(db, payload, format, FALSE), <<>>),
                              payload, format)]
        ELSE [db |-> new,
              response |-> Serialized(Response(op, principal, id, noq, 201, "",
                                          <<RecipeSerializer(new, id)>>),
                                      payload, format)]

\* ModelSerializer.update: setattr for scalar fields, field.set for
\* many-to-many fields; 'user' is not a serializer field
RecipeSerializer_update(row, payload, partial) ==
    [row EXCEPT
       !.title     = RecipeSerializer_scalar(payload, "title", @),
       !.time_mins = RecipeSerializer_scalar(payload, "time_mins", @),
       !.tags        = RecipeSerializer_related(payload, "tag", @, partial),
       !.ingredients = RecipeSerializer_related(payload, "ingredient", @, partial)]

\* PUT (partial = FALSE) and PATCH (partial = TRUE) /recipes/<pk>/
RecipeViewSet_update(db, principal, pk, query, payload, format, partial) ==
    LET op == IF partial THEN "partial_update_recipe" ELSE "update_recipe"
        stop == RecipeViewSet_initial(db, op, principal, pk, query, TRUE)
        new == [db EXCEPT
                  !.recipes[pk] = RecipeSerializer_update(@, payload, partial)]
    IN  IF stop # {}
        THEN [db |-> db, response |-> CHOOSE r \in stop : TRUE]
        ELSE IF RecipeSerializer_errors(db, payload, format, partial) # ""
        THEN [db |-> db,
              response |-> Serialized(Response(op, principal, pk, query, 400,
                              RecipeSerializer_errors(db, payload, format, partial), <<>>),
                              payload, format)]
        ELSE [db |-> new,
              response |-> Serialized(Response(op, principal, pk, query, 200, "",
                                          <<RecipeSerializer(new, pk)>>),
                                      payload, format)]

\* RecipeImageSerializer: the uploaded file must be an image
RecipeImageSerializer_errors(payload) ==
    IF ~Has(payload, "image") THEN "image: No file was submitted."
    ELSE IF payload["image"] \notin Images
    THEN "image: Upload a valid image."
    ELSE ""

\* POST /recipes/<pk>/upload-image/
RecipeViewSet_upload_image(db, principal, pk, query, payload) ==
    LET op == "upload_image"
        stop == RecipeViewSet_initial(db, op, principal, pk, query, TRUE)
        new == [db EXCEPT !.recipes[pk].image = payload["image"]]
    IN  IF stop # {}
        THEN [db |-> db, response |-> CHOOSE r \in stop : TRUE]
        ELSE IF RecipeImageSerializer_errors(payload) # ""
        THEN [db |-> db,
              response |-> Serialized(Response(op, principal, pk, query, 400,
                                          RecipeImageSerializer_errors(payload), <<>>),
                                      payload, "multipart")]
        ELSE [db |-> new,
              response |-> Serialized(Response(op, principal, pk, query, 200, "",
                                          <<[id |-> pk, image |-> payload["image"]]>>),
                                      payload, "multipart")]

\* a destroy that looks the row up in Recipe.objects.all()
destroy_any(db, principal, pk, query) ==
    LET op == "destroy_recipe"
        new == [db EXCEPT
                  !.recipes = [r \in DOMAIN db.recipes \ {pk} |-> db.recipes[r]]]
    IN  IF ~IsAuthenticated(principal)
        THEN [db |-> db, response |-> NotAuthenticated(op, principal, pk, query)]
        ELSE IF pk \notin DOMAIN db.recipes
        THEN [db |-> db, response |-> Http404(op, principal, pk, query)]
        ELSE [db |-> new,
              response |-> Response(op, principal, pk, query, 204, "", <<>>)]

\* DELETE /recipes/<pk>/ (ModelViewSet's DestroyModelMixin)
RecipeViewSet_destroy(db, principal, pk, query) ==
    LET op == "destroy_recipe"
        stop == RecipeViewSet_initial(db, op, principal, pk, query, TRUE)
        new == [db EXCEPT
                  !.recipes = [r \in DOMAIN db.recipes \ {pk} |-> db.recipes[r]]]
    IN  IF stop # {}
        THEN [db |-> db, response |-> CHOOSE r \in stop : TRUE]
        ELSE [db |-> new,
              response |-> Response(op, principal, pk, query, 204, "", <<>>)]

----------------------------------------------------------------------------
(* Requests *)

NoQuery == [k \in {} |-> <<>>]

\* values of ?assigned_only=
AssignedOnlyValues == {<<>>, <<"0">>, <<"1">>, <<"x">>}

AttrQueries == {NoQuery} \cup {[assigned_only |-> v] : v \in AssignedOnlyValues}

\* values of ?tags= and ?ingredients=
FilterValues == {<<>>, <<"1">>, <<"1", ",", "2">>, <<"x">>, <<"1", ",">>}

\* one filter with any value, or both filters with the values of BothValues
BothValues == {<<"1">>, <<"1", ",", "2">>, <<"x">>}

RecipeQueries ==
    {NoQuery}
      \cup {[tags |-> v] : v \in FilterValues}
      \cup {[ingredients |-> v] : v \in FilterValues}
      \cup {[tags |-> v, ingredients |-> w] : v \in BothValues, w \in BothValues}

\* the query strings tried on the detail routes of recipes
DetailQueries == {NoQuery, [tags |-> <<"1">>], [tags |-> <<"x">>],
                  [ingredients |-> <<"1">>], [ingredients |-> <<"x">>]}

\* the query strings tried on the writes to a recipe
WriteQueries == {NoQuery, [tags |-> <<"1">>], [tags |-> <<"x">>]}

\* an unauthenticated request: no query string, or a malformed one on a
\* list route
QueriesOf(principal, queries) ==
    IF principal \in Users THEN queries
    ELSE {q \in queries : \A k \in DOMAIN q : q[k] = <<"x">> /\ queries # DetailQueries
                                               /\ queries # WriteQueries}

\* a payload is a dictionary; Opt(key, values): the key absent or with a value
Opt(key, values) == {[k \in {} |-> 0]} \cup {key :> v : v \in values}
Req(key, values) == {key :> v : v \in values}

TimeMins == {10}

AttrPayloads(kind) ==
    {n @@ u : n \in Opt("name", (IF kind = "tag" THEN TagNames ELSE IngredientNames)
                                  \cup {""}),
              u \in Opt("user", Users)}

\* primary keys a payload may name: those in use and one that is not
PkLists(table) == SUBSET (DOMAIN table) \cup {{Len(table) + 1}}

\* payloads with the required scalar fields (POST, PUT)
FullPayloads(db) ==
    {t @@ m @@ g @@ i :
        t \in Req("title", Titles), m \in Req("time_mins", TimeMins),
        g \in Opt("tags", PkLists(db.tags)),
        i \in Opt("ingredients", PkLists(db.ingredients))}

\* payloads of a few fields (PATCH)
PartialPayloads(db) ==
    {t @@ g : t \in Opt("title", Titles), g \in Opt("tags", PkLists(db.tags))}
      \cup Req("ingredients", PkLists(db.ingredients))
      \cup Req("time_mins", TimeMins)

\* payloads that name an owner
OwnerPayloads ==
    {t @@ m @@ u : t \in Req("title", {"Chicken tikka"}), m \in Req("time_mins", TimeMins),
                   u \in Req("user", Users)}

\* the payload sent along with a query string
PlainPayloads ==
    {t @@ m : t \in Req("title", {"Chicken tikka"}), m \in Req("time_mins", TimeMins)}

Formats == {"multipart", "json"}

\* form data has no empty list: a key with no value is a key that is absent
Encodable(payload, format) ==
    format = "multipart" =>
        \A kind \in Kinds :
            Has(payload, FieldOf(kind)) => payload[FieldOf(kind)] # {}

\* a write to a recipe: payload, encoding and query string
RecipeWrites(principal, payloads) ==
    {w \in {[payload |-> p, format |-> f, query |-> NoQuery] :
               p \in payloads \cup OwnerPayloads, f \in Formats} :
        Encodable(w.payload, w.format)}
      \cup {[payload |-> p, format |-> "multipart", query |-> q] :
               p \in PlainPayloads, q \in QueriesOf(principal, WriteQueries)}

\* the primary keys tried on a detail route: those in use and one that is not
Pks(db) == DOMAIN db.recipes \cup {db.recipe_seq + 1}

ImagePayloads == Opt("image", Images \cup {"notimage"})


----------------------------------------------------------------------------
(* The state machine: a client sends a request, the handler runs and      *)
(* leaves its response, the client takes the response.                    *)

NoResponse == Response("none", AnonymousUser, 0, NoQuery, 0, "", <<>>)

\* db_conn = None
None == "None"

Init ==
    /\ tags = <<>>
    /\ ingredients = <<>>
    /\ recipes = [id \in {} |-> 0]
    /\ recipe_seq = 0
    /\ response = NoResponse
    /\ pc = "start"
    /\ db_conn = None
    /\ stdout = <<>>
    /\ slept = 0
    /\ available = FALSE

Rows(db) == Len(db.tags) + Len(db.ingredients) + db.recipe_seq

Commit(db) ==
    /\ Rows(db) <= MaxRows
    /\ tags' = db.tags
    /\ ingredients' = db.ingredients
    /\ recipes' = db.recipes
    /\ recipe_seq' = db.recipe_seq
    /\ UNCHANGED wait_vars

ReadOnly == UNCHANGED <<tags, ingredients, recipes, recipe_seq, wait_vars>>

Idle == response = NoResponse

ListAttr ==
    /\ Idle
    /\ \E kind \in Kinds, principal \in Principals :
       \E query \in QueriesOf(principal, AttrQueries) :
        /\ response' \in BaseRecipeAttrViewSet_list(DB, kind, principal, query)
        /\ ReadOnly

RetrieveAttr ==
    /\ Idle
    /\ \E kind \in Kinds, principal \in Principals :
         \E query \in QueriesOf(principal, AttrQueries), pk \in 1..(Len(Table(DB, kind)) + 1) :
           /\ response' = BaseRecipeAttrViewSet_retrieve(DB, kind, principal, pk, query)
           /\ ReadOnly

CreateAttr ==
    /\ Idle
    /\ \E kind \in Kinds, principal \in Principals :
         \E payload \in AttrPayloads(kind) :
           LET out == BaseRecipeAttrViewSet_create(DB, kind, principal, payload)
           IN  /\ Commit([DB EXCEPT ![FieldOf(kind)] = out.table])
               /\ response' = out.response

ListRecipes ==
    /\ Idle
    /\ \E principal \in Principals :
       \E query \in QueriesOf(principal, RecipeQueries) :
        /\ response' \in RecipeViewSet_list(DB, principal, query)
        /\ ReadOnly

RetrieveRecipe ==
    /\ Idle
    /\ \E principal \in Principals, pk \in Pks(DB) :
       \E query \in QueriesOf(principal, DetailQueries) :
        /\ response' = RecipeViewSet_retrieve(DB, principal, pk, query)
        /\ ReadOnly

CreateRecipe ==
    /\ Idle
    /\ \E principal \in Principals :
       \E req \in RecipeWrites(principal, FullPayloads(DB)) :
        LET out == RecipeViewSet_create(DB, principal, req.payload, req.format)
        IN  /\ Commit(out.db)
            /\ response' = out.response

UpdateRecipe ==
    /\ Idle
    /\ \E principal \in Principals, pk \in Pks(DB) :
       \E req \in RecipeWrites(principal, FullPayloads(DB)) :
        LET out == RecipeViewSet_update(DB, principal, pk, req.query, req.payload,
                                        req.format, FALSE)
        IN  /\ Commit(out.db)
            /\ response' = out.response

PartialUpdateRecipe ==
    /\ Idle
    /\ \E principal \in Principals, pk \in Pks(DB) :
       \E req \in RecipeWrites(principal, PartialPayloads(DB)) :
        LET out == RecipeViewSet_update(DB, principal, pk, req.query, req.payload,
                                        req.format, TRUE)
        IN  /\ Commit(out.db)
            /\ response' = out.response

UploadImage ==
    /\ Idle
    /\ \E principal \in Principals, pk \in Pks(DB), payload \in ImagePayloads :
       \E query \in QueriesOf(principal, WriteQueries) :
        LET out == RecipeViewSet_upload_image(DB, principal, pk, query, payload)
        IN  /\ Commit(out.db)
            /\ response' = out.response

DestroyRecipe ==
    /\ Idle
    /\ \E principal \in Principals, pk \in Pks(DB) :
       \E query \in QueriesOf(principal, WriteQueries) :
        LET out == RecipeViewSet_destroy(DB, principal, pk, query)
        IN  /\ Commit(out.db)
            /\ response' = out.response

\* the client takes the response
Deliver ==
    /\ ~Idle
    /\ response' = NoResponse
    /\ ReadOnly

Next ==
    \/ ListAttr
    \/ RetrieveAttr
    \/ CreateAttr
    \/ ListRecipes
    \/ RetrieveRecipe
    \/ CreateRecipe
    \/ UpdateRecipe
    \/ PartialUpdateRecipe
    \/ UploadImage
    \/ DestroyRecipe
    \/ Deliver

Spec == Init /\ [][Next]_vars

----------------------------------------------------------------------------
(* wait_for_db: Command.handle, and the database it waits for *)

Unavailable == "Database unavailable, waiting 1 second..."
Available == "Database available!"

\* the attempts that raised OperationalError so far
Retries == Cardinality({i \in 1..Len(stdout) : stdout[i] = Unavailable})

\* self.stdout.write('Waiting for database...'); db_conn = None
Start ==
    /\ pc = "start"
    /\ stdout' = Append(stdout, "Waiting for database...")
    /\ db_conn' = None
    /\ pc' = "while"
    /\ UNCHANGED <<slept, available, api_vars>>

\* while not db_conn: into the body, or past the loop
While ==
    /\ pc = "while"
    /\ pc' = IF db_conn = None THEN "try" ELSE "write"
    /\ UNCHANGED <<db_conn, stdout, slept, available, api_vars>>

\* try: db_conn = connections['default'], raising nothing
Connect ==
    /\ pc = "try"
    /\ available
    /\ db_conn' = "default"
    /\ pc' = "while"
    /\ UNCHANGED <<stdout, slept, available, api_vars>>

\* the except branch left the loop
OperationalError_break ==
    /\ pc = "try"
    /\ ~available
    /\ Retries < MaxRetries
    /\ stdout' = Append(stdout, Unavailable)
    /\ pc' = "write"
    /\ UNCHANGED <<db_conn, slept, available, api_vars>>

\* except OperationalError: self.stdout.write('Database unavailable, ...')
OperationalError ==
    /\ pc = "try"
    /\ ~available
    /\ Retries < MaxRetries
    /\ stdout' = Append(stdout, Unavailable)
    /\ pc' = "sleep"
    /\ UNCHANGED <<db_conn, slept, available, api_vars>>

\* time.sleep(1)
Sleep ==
    /\ pc = "sleep"
    /\ slept' = slept + 1
    /\ pc' = "while"
    /\ UNCHANGED <<db_conn, stdout, available, api_vars>>

\* self.stdout.write(self.style.SUCCESS('Database available!')), and return
Write ==
    /\ pc = "write"
    /\ stdout' = Append(stdout, Available)
    /\ pc' = "done"
    /\ UNCHANGED <<db_conn, slept, available, api_vars>>

\* the database comes up
DatabaseUp ==
    /\ ~available
    /\ available' = TRUE
    /\ UNCHANGED <<pc, db_conn, stdout, slept, api_vars>>

\* the database goes down
DatabaseDown ==
    /\ available
    /\ available' = FALSE
    /\ UNCHANGED <<pc, db_conn, stdout, slept, api_vars>>

WaitNext ==
    \/ Start
    \/ While
    \/ Connect
    \/ OperationalError
    \/ Sleep
    \/ Write
    \/ DatabaseUp
    \/ DatabaseDown

\* the command is a running process: each of its steps is taken once it
\* can be; nothing is assumed of the database
WaitSpec ==
    /\ Init
    /\ [][WaitNext]_vars
    /\ WF_vars(Start)
    /\ WF_vars(While)
    /\ WF_vars(Connect)
    /\ WF_vars(OperationalError)
    /\ WF_vars(Sleep)
    /\ WF_vars(Write)

----------------------------------------------------------------------------
(* Properties *)

Authenticated == response.principal \in Users

\* the primary keys of the rows of a response
DataIds == {response.data[i].id : i \in 1..Len(response.data)}

\* no row twice in a response
NoDuplicates ==
    \A i, j \in 1..Len(response.data) :
        response.data[i].id = response.data[j].id => i = j

\* a well-formed id list: non-empty, every comma-separated segment an integer
WellFormed(v) == v # <<>> /\ \A i \in 1..Len(split(v)) : int_ok(split(v)[i])

\* some comma-separated segment is no integer
BadSegment(v) == \E i \in 1..Len(split(v)) : ~int_ok(split(v)[i])

OwnedBy(table, user) == {id \in DOMAIN table : table[id].user = user}

\* the database with the rows of every user but one removed
Erase(db, user) ==
    [tags        |-> [id \in OwnedBy(db.tags, user) |-> db.tags[id]],
     ingredients |-> [id \in OwnedBy(db.ingredients, user) |-> db.ingredients[id]],
     recipes     |-> [id \in OwnedBy(db.recipes, user) |->
                        [db.recipes[id] EXCEPT
                           !.tags = @ \cap OwnedBy(db.tags, user),
                           !.ingredients = @ \cap OwnedBy(db.ingredients, user)]],
     recipe_seq  |-> db.recipe_seq]

EmptyDB == [tags |-> <<>>, ingredients |-> <<>>, recipes |-> [id \in {} |-> 0],
            recipe_seq |-> 0]

\* C1: a successful list response for tags, ingredients or recipes holds
\* only rows whose owner is the requesting principal, whatever the filter
\* parameters are.
ListOnlyOwnRows ==
    /\ \A kind \in Kinds :
         response.op = "list_" \o kind /\ response.status = 200
           => \A id \in DataIds : Table(DB, kind)[id].user = response.principal
    /\ response.op = "list_recipe" /\ response.status = 200
           => \A id \in DataIds : recipes[id].user = response.principal

\* a filtered recipe list that has rows, while a recipe of another user
\* matches the same filter
ListOnlyOwnRowsWitness ==
    /\ response.op = "list_recipe"
    /\ response.status = 200
    /\ Has(response.query, "tags")
    /\ response.query["tags"] # <<>>
    /\ Len(response.data) > 0
    /\ \E r \in DOMAIN recipes :
         /\ recipes[r].user # response.principal
         /\ recipes[r].tags \cap filter_ids(response.query, "tags") # {}

\* C2: no row of another user appears in a detail response, the tag and
\* ingredient objects nested in a recipe detail response included.
DetailOnlyOwnRows ==
    /\ \A kind \in Kinds :
         response.op = "retrieve_" \o kind /\ response.status = 200
           => Table(DB, kind)[response.data[1].id].user = response.principal
    /\ response.op = "retrieve_recipe" /\ response.status = 200
           => /\ recipes[response.data[1].id].user = response.principal
              /\ \A t \in response.data[1].tags :
                   tags[t.id].user = response.principal
              /\ \A i \in response.data[1].ingredients :
                   ingredients[i.id].user = response.principal

\* C3: retrieving by id a row that another user owns gives the response
\* that the same request gives when the rows of the other users do not
\* exist; it is never 403, and it is 404 'Not found.' unless the query
\* string itself is rejected.
OthersRowIsNotFound ==
    /\ \A kind \in Kinds :
         /\ response.op = "retrieve_" \o kind
         /\ Authenticated
         /\ response.pk \in DOMAIN Table(DB, kind)
         /\ Table(DB, kind)[response.pk].user # response.principal
         => /\ response = BaseRecipeAttrViewSet_retrieve(
                              Erase(DB, response.principal), kind,
                              response.principal, response.pk, response.query)
            /\ response.status # 403
            /\ (~Has(response.query, "assigned_only")
                  \/ int_ok(response.query["assigned_only"]))
                 => response.status = 404 /\ response.detail = "Not found."
    /\ /\ response.op = "retrieve_recipe"
       /\ Authenticated
       /\ response.pk \in DOMAIN recipes
       /\ recipes[response.pk].user # response.principal
       => /\ response = RecipeViewSet_retrieve(
                            Erase(DB, response.principal),
                            response.principal, response.pk, response.query)
          /\ response.status # 403
          /\ (\A k \in DOMAIN response.query : ~BadSegment(response.query[k])
                                                 \/ response.query[k] = <<>>)
               => response.status = 404 /\ response.detail = "Not found."

\* a tag of another user was asked for by id
OthersRowIsNotFoundWitness ==
    /\ response.op = "retrieve_tag"
    /\ Authenticated
    /\ response.pk \in DOMAIN tags
    /\ tags[response.pk].user # response.principal
    /\ response.status = 404

\* C4: with assigned_only=1 the list holds exactly the principal's tags
\* (ingredients) that a recipe of the principal references, each once.
AssignedOnlyOwnRecipes ==
    \A kind \in Kinds :
        /\ response.op = "list_" \o kind
        /\ response.status = 200
        /\ Has(response.query, "assigned_only")
        /\ int(response.query["assigned_only"]) # 0
        => /\ DataIds =
                {id \in OwnedBy(Table(DB, kind), response.principal) :
                    \E r \in OwnedBy(recipes, response.principal) :
                        id \in Related(recipes[r], kind)}
           /\ NoDuplicates

\* the one filter parameter of a recipe list request that has just one
OnlyFilter(key, kind) ==
    /\ response.op = "list_recipe"
    /\ response.status = 200
    /\ DOMAIN response.query = {key}
    /\ WellFormed(response.query[key])

\* C5: with a well-formed id list S as tags (ingredients) and no other
\* filter, the recipe list holds exactly the principal's recipes whose tag
\* (ingredient) set meets S, each once.
FilterByRelatedIds ==
    \A kind \in Kinds :
        OnlyFilter(FieldOf(kind), kind)
        => /\ DataIds =
                {r \in OwnedBy(recipes, response.principal) :
                    \E id \in Related(recipes[r], kind) :
                       \E i \in 1..Len(split(response.query[FieldOf(kind)])) :
                          id = int(split(response.query[FieldOf(kind)])[i])}
           /\ NoDuplicates

\* a recipe with two tags, both named by the filter, is listed
FilterByRelatedIdsWitness ==
    /\ OnlyFilter("tags", "tag")
    /\ \E id \in DataIds : {1, 2} \subseteq recipes[id].tags
    /\ response.query["tags"] = <<"1", ",", "2">>

\* C6: with both filters well-formed, the recipe list is the tags-only
\* list restricted to the rows of the ingredients-only list.
BothFiltersIntersect ==
    /\ response.op = "list_recipe"
    /\ response.status = 200
    /\ DOMAIN response.query = {"tags", "ingredients"}
    /\ WellFormed(response.query["tags"])
    /\ WellFormed(response.query["ingredients"])
    => \E t \in RecipeViewSet_list(DB, response.principal,
                                   [tags |-> response.query["tags"]]),
          i \in RecipeViewSet_list(DB, response.principal,
                                   [ingredients |-> response.query["ingredients"]]) :
          LET in_i(row) == \E j \in 1..Len(i.data) : i.data[j].id = row.id
          IN  /\ t.status = 200
              /\ i.status = 200
              /\ response.data = SelectSeq(t.data, in_i)

\* both filters given; a recipe of the principal passes the tags filter
\* and not the ingredients filter, another ingredient being asked for
BothFiltersIntersectWitness ==
    /\ response.op = "list_recipe"
    /\ response.status = 200
    /\ DOMAIN response.query = {"tags", "ingredients"}
    /\ WellFormed(response.query["tags"])
    /\ WellFormed(response.query["ingredients"])
    /\ \E r \in OwnedBy(recipes, response.principal) :
         /\ recipes[r].tags \cap filter_ids(response.query, "tags") # {}
         /\ recipes[r].ingredients \cap filter_ids(response.query, "ingredients") = {}
    /\ ingredients # <<>>

TagsMessage == "tags must be a comma separated list of integers"
IngredientsMessage == "ingredients must be a comma separated list of integers"

\* C7 as claimed: whenever tags (ingredients) is present, the empty value
\* included, and a segment is no integer, the recipe list fails with 400
\* and the message of that parameter, and has no rows.
FilterParseErrorWhenPresent ==
    response.op = "list_recipe" /\ Authenticated
    => /\ Has(response.query, "tags") /\ BadSegment(response.query["tags"])
          => /\ response.status = 400
             /\ response.detail = TagsMessage
             /\ response.data = <<>>
       /\ Has(response.query, "ingredients") /\ BadSegment(response.query["ingredients"])
          => /\ response.status = 400
             /\ response.detail = IngredientsMessage
             /\ response.data = <<>>

\* a filter parameter that is present, not empty, and has a bad segment
Malformed(key) ==
    /\ Has(response.query, key)
    /\ response.query[key] # <<>>
    /\ BadSegment(response.query[key])

\* C7: a tags parameter that is present and not empty and has a segment
\* that is no integer fails the recipe list with 400, the tags message and
\* no rows; so does ingredients with its message, when tags raises
\* nothing; an empty value is read as no filter and raises nothing.
FilterParseError ==
    response.op = "list_recipe" /\ Authenticated
    => /\ Malformed("tags")
          => /\ response.status = 400
             /\ response.detail = TagsMessage
             /\ response.data = <<>>
       /\ Malformed("ingredients") /\ ~Malformed("tags")
          => /\ response.status = 400
             /\ response.detail = IngredientsMessage
             /\ response.data = <<>>
       /\ ~Malformed("ingredients") /\ ~Malformed("tags")
          => response.status = 200

\* a tags value with an empty segment was rejected
FilterParseErrorWitness ==
    /\ response.op = "list_recipe"
    /\ Authenticated
    /\ Has(response.query, "tags")
    /\ response.query["tags"] = <<"1", ",">>
    /\ response.status = 400
    /\ recipes # EmptyDB.recipes

\* C8: a tag or ingredient list request whose assigned_only is no integer
\* fails with 400 'assigned_only must be an integer', and so it does on
\* the empty database.
AssignedOnlyParseError ==
    \A kind \in Kinds :
        /\ response.op = "list_" \o kind
        /\ Authenticated
        /\ Has(response.query, "assigned_only")
        /\ ~int_ok(response.query["assigned_only"])
        => /\ response.status = 400
           /\ response.detail = "assigned_only must be an integer"
           /\ response.data = <<>>
           /\ BaseRecipeAttrViewSet_list(EmptyDB, kind, response.principal,
                                         response.query) = {response}

\* the request failed although the principal owns tags
AssignedOnlyParseErrorWitness ==
    /\ response.op = "list_tag"
    /\ Authenticated
    /\ Has(response.query, "assigned_only")
    /\ ~int_ok(response.query["assigned_only"])
    /\ response.status = 400
    /\ OwnedBy(tags, response.principal) # {}

OwnerFixedAtCreation ==
    [][/\ \A kind \in Kinds :
            \A id \in DOMAIN Table(DB, kind)' :
               IF id \in DOMAIN Table(DB, kind)
               THEN Table(DB, kind)'[id].user = Table(DB, kind)[id].user
               ELSE /\ response'.op = "create_" \o kind
                    /\ Table(DB, kind)'[id].user = response'.principal
       /\ \A id \in DOMAIN recipes' :
               IF id \in DOMAIN recipes
               THEN recipes'[id].user = recipes[id].user
               ELSE /\ response'.op = "create_recipe"
                    /\ recipes'[id].user = response'.principal]_vars

\* a tag was created from a payload that names another user as owner
OwnerFixedAtCreationWitness ==
    /\ response.op = "create_tag"
    /\ response.status = 201
    /\ Has(response.initial_data, "user")
    /\ response.initial_data["user"] \in Users \ {response.principal}
    /\ tags[response.pk].user = response.principal

\* the value a field of a recipe has after a write with this payload:
\* the payload's value when the key is present, else the given one
Given(payload, key, else) == IF Has(payload, key) THEN payload[key] ELSE else

\* the payload's many-to-many keys that are present name existing rows
RelatedExist(payload) ==
    \A kind \in Kinds :
        Has(payload, FieldOf(kind))
          => payload[FieldOf(kind)] \subseteq DOMAIN Table(DB, kind)

\* C11: a PUT by the owner of the recipe, reaching the serializer with a
\* payload that omits tags, that has the other fields and whose
\* ingredients exist, leaves the recipe with no tags and with every field
\* of the payload set to the payload's value, in either encoding.
FullUpdateClearsTags ==
    [][LET p  == response'.initial_data
           pk == response'.pk
       IN  /\ response'.op = "update_recipe"
           /\ response'.format # ""
           /\ ~Has(p, "tags")
           /\ Has(p, "ingredients")
           /\ RelatedExist(p)
           => /\ recipes'[pk].tags = {}
              /\ recipes'[pk].title = p["title"]
              /\ recipes'[pk].time_mins = p["time_mins"]
              /\ recipes'[pk].ingredients = p["ingredients"]]_vars

\* C12: a PATCH answered 200 was sent by the owner of the recipe and sets
\* each field that is present in the payload to the payload's value, the
\* tag set and the ingredient set to exactly the given ids; every field
\* that is absent, the owner, the image, the other recipes and the tag and
\* ingredient tables are unchanged; a PATCH answered otherwise changes
\* nothing.
PartialUpdateFrame ==
    [][response'.op = "partial_update_recipe"
       => IF response'.status = 200
          THEN LET p  == response'.initial_data
                   pk == response'.pk
               IN  /\ pk \in DOMAIN recipes
                   /\ recipes[pk].user = response'.principal
                   /\ recipes' = [recipes EXCEPT
                         ![pk].title = Given(p, "title", @),
                         ![pk].time_mins = Given(p, "time_mins", @),
                         ![pk].tags = Given(p, "tags", @),
                         ![pk].ingredients = Given(p, "ingredients", @)]
                   /\ UNCHANGED <<tags, ingredients, recipe_seq>>
          ELSE UNCHANGED <<tags, ingredients, recipes, recipe_seq>>]_vars

\* a PATCH of the title alone was accepted for a recipe that has tags
PartialUpdateFrameWitness ==
    /\ response.op = "partial_update_recipe"
    /\ response.status = 200
    /\ DOMAIN response.initial_data = {"title"}
    /\ recipes[response.pk].tags # {}
    /\ recipes[response.pk].title = "Chicken tikka"

\* C13: a tag or ingredient creation by an authenticated principal whose
\* payload has the empty name is answered 400, and the tables are after it
\* what they were before it.
CreateEmptyNameRejected ==
    [][\A kind \in Kinds :
          /\ response'.op = "create_" \o kind
          /\ response'.principal \in Users
          /\ Has(response'.initial_data, "name")
          /\ response'.initial_data["name"] = ""
          => /\ response'.status = 400
             /\ UNCHANGED <<tags, ingredients, recipes, recipe_seq>>]_vars

\* an empty name was rejected while the principal has tags
CreateEmptyNameRejectedWitness ==
    /\ response.op = "create_tag"
    /\ response.principal \in Users
    /\ Has(response.initial_data, "name")
    /\ response.initial_data["name"] = ""
    /\ response.status = 400
    /\ OwnedBy(tags, response.principal) # {}

\* C14: once a principal has created a recipe from a payload with the tag
\* ids S and the ingredient ids T, the detail view of that recipe for the
\* same principal is 200 and nests exactly the tags of S and exactly the
\* ingredients of T, each as its id and name.
CreateThenDetail ==
    [][response'.op = "create_recipe" /\ response'.status = 201
       => LET p == response'.initial_data
              detail == RecipeViewSet_retrieve(DB', response'.principal,
                                               response'.pk, NoQuery)
          IN  /\ detail.status = 200
              /\ detail.data[1].tags =
                    {[id |-> t, name |-> tags'[t].name] : t \in Given(p, "tags", {})}
              /\ detail.data[1].ingredients =
                    {[id |-> i, name |-> ingredients'[i].name] :
                        i \in Given(p, "ingredients", {})}]_vars

\* the owner sees the detail of a recipe with two tags
CreateThenDetailWitness ==
    /\ response.op = "retrieve_recipe"
    /\ response.status = 200
    /\ response.query = NoQuery
    /\ {t.id : t \in response.data[1].tags} = {1, 2}

\* the operations of RecipeViewSet on one recipe
ByIdOps == {"retrieve_recipe", "update_recipe", "partial_update_recipe",
            "upload_image", "destroy_recipe"}

\* C15: an operation on one recipe by an authenticated principal who does
\* not own it changes nothing and is answered as it is when the rows of
\* the other users do not exist: never 403, and 404 'Not found.' unless
\* the query string itself is rejected.
OthersRecipeUntouched ==
    [][/\ response'.op \in ByIdOps
       /\ response'.principal \in Users
       /\ response'.pk \in DOMAIN recipes
       /\ recipes[response'.pk].user # response'.principal
       => /\ UNCHANGED <<tags, ingredients, recipes, recipe_seq>>
          /\ response' \in RecipeViewSet_initial(
                               Erase(DB, response'.principal), response'.op,
                               response'.principal, response'.pk, response'.query, TRUE)
          /\ response'.status # 403
          /\ (\A k \in DOMAIN response'.query : ~BadSegment(response'.query[k]))
               => response'.status = 404 /\ response'.detail = "Not found."]_vars

\* a PUT on a recipe of another user was answered 404
OthersRecipeUntouchedWitness ==
    /\ response.op = "update_recipe"
    /\ response.principal \in Users
    /\ response.pk \in DOMAIN recipes
    /\ recipes[response.pk].user # response.principal
    /\ response.status = 404

\* C16: a request of the unauthenticated principal, to any endpoint, is
\* answered 401 with no rows and changes nothing.
UnauthenticatedRejected ==
    [][response'.op # "none" /\ response'.principal = AnonymousUser
       => /\ response'.status = 401
          /\ response'.data = <<>>
          /\ UNCHANGED <<tags, ingredients, recipes, recipe_seq>>]_vars

\* an unauthenticated PATCH of a recipe that exists
UnauthenticatedRejectedWitness ==
    /\ response.op = "partial_update_recipe"
    /\ response.principal = AnonymousUser
    /\ response.pk \in DOMAIN recipes
    /\ response.status = 401

WaitsUntilAvailable ==
    /\ [](/\ (\E i \in 1..Len(stdout) : stdout[i] = Available) => db_conn = "default"
          /\ pc = "done" => db_conn = "default" /\ stdout[Len(stdout)] = Available
          /\ slept = IF pc = "sleep" THEN Retries - 1 ELSE Retries)
    /\ [][/\ db_conn' # db_conn => pc = "try" /\ available /\ db_conn' = "default"
          /\ pc = "try" /\ pc' # "try"
               => \/ available /\ db_conn' = "default" /\ pc' = "while"
                  \/ ~available /\ stdout' = Append(stdout, Unavailable)
                                /\ pc' = "sleep"
          /\ pc = "sleep" /\ pc' # "sleep" => slept' = slept + 1 /\ pc' = "while"
          /\ pc = "while" /\ pc' # "while"
               => pc' = IF db_conn = None THEN "try" ELSE "write"]_vars
    /\ (pc = "sleep" ~> pc = "try")
    /\ (<>[]available => <>(pc = "done"))

\* the command returned after three attempts that raised OperationalError
WaitsUntilAvailableWitness ==
    /\ pc = "done"
    /\ slept = 3
    /\ Retries = 3

\* C19: the filter parameters of a request apply to the operations on one
\* row: an owned recipe is not found by retrieve or upload-image when a
\* well-formed tags (ingredients) parameter names none of its tags
\* (ingredients); an operation on one recipe with a malformed tags or
\* ingredients parameter is answered 400 with the message of the
\* parameter; an owned tag (ingredient) that no recipe references is not
\* found by retrieve with assigned_only=1.
DetailUsesFilteredQueryset ==
    /\ \A kind \in Kinds :
         /\ response.op \in {"retrieve_recipe", "upload_image"}
         /\ Authenticated
         /\ response.pk \in OwnedBy(recipes, response.principal)
         /\ Has(response.query, FieldOf(kind))
         /\ WellFormed(response.query[FieldOf(kind)])
         /\ ~Malformed("tags")
         /\ Related(recipes[response.pk], kind)
               \cap filter_ids(response.query, FieldOf(kind)) = {}
         => response.status = 404 /\ response.detail = "Not found."
    /\ response.op \in ByIdOps /\ Authenticated
         => /\ Malformed("tags")
               => response.status = 400 /\ response.detail = TagsMessage
            /\ Malformed("ingredients") /\ ~Malformed("tags")
               => response.status = 400 /\ response.detail = IngredientsMessage
    /\ \A kind \in Kinds :
         /\ response.op = "retrieve_" \o kind
         /\ Authenticated
         /\ response.pk \in OwnedBy(Table(DB, kind), response.principal)
         /\ Has(response.query, "assigned_only")
         /\ int_ok(response.query["assigned_only"])
         /\ int(response.query["assigned_only"]) # 0
         /\ \A r \in DOMAIN recipes : response.pk \notin Related(recipes[r], kind)
         => response.status = 404 /\ response.detail = "Not found."

\* an owned recipe that has a tag was asked for with another tag's id
DetailUsesFilteredQuerysetWitness ==
    /\ response.op = "retrieve_recipe"
    /\ Authenticated
    /\ response.pk \in OwnedBy(recipes, response.principal)
    /\ Has(response.query, "tags")
    /\ WellFormed(response.query["tags"])
    /\ recipes[response.pk].tags # {}
    /\ recipes[response.pk].tags \cap filter_ids(response.query, "tags") = {}
    /\ response.status = 404

====
